---------------------------- MODULE Spec2Model ----------------------------
(***************************************************************************)
(* Model of src/src/utils/searchUtils.ts: the product search utilities     *)
(* normalizeSearchText, tokenize, matchesSearch, matchesSearchArray,       *)
(* searchProduct and debugSearch.                                          *)
(*                                                                         *)
(* A JavaScript string is a sequence of characters; a character is a TLA+  *)
(* string naming one code point ("a", "alpha_tonos" for U+03AC, "acute"    *)
(* for the combining mark U+0301, ...).  undefined is the one-element      *)
(* sequence Undefined, whose element is no character.                      *)
(***************************************************************************)
EXTENDS Integers, Sequences, FiniteSets, TLC

VARIABLES
    pc,          \* "ready" before the call, "returned" after it
    op,          \* the function that was called ("none" before the call)
    text,        \* argument of normalizeSearchText / tokenize
    searchTerm,  \* argument of matchesSearch / searchProduct / debugSearch
    targetText,  \* argument of matchesSearch
    product,     \* argument of searchProduct / debugSearch
    result       \* the value the call returned

vars == <<pc, op, text, searchTerm, targetText, product, result>>

-----------------------------------------------------------------------------
(* Bounds of the model                                                     *)

\* longest text of the normalizer specification
MaxTextLen == 3
\* longest text of the tokenizer specification
MaxTokTextLen == 5
\* most words of a search term and of a target text of the matcher
\* specification
MaxSearchWords == 2
MaxTargetWords == 3
\* longest search term of the short-term scenario
MaxShortLen == 2
\* most items of an array field of a product
MaxItems == 2
\* most fields in which a product differs from the base product
MaxVaried == 2

-----------------------------------------------------------------------------
(* Characters                                                              *)

Undefined == <<"undefined">>

\* JavaScript's truthiness test on a string: !text
Falsy(s) == s = Undefined \/ s = <<>>

\* the characters \s matches and trim() removes (space U+0020, tab U+0009)
Whitespace == {" ", "tab"}

\* the combining marks U+0300-U+036F (acute U+0301, diaeresis U+0308)
CombiningMarks == {"acute", "diaeresis"}

\* String.prototype.toLowerCase, per character
LowerTable ==
    [A |-> "a", B |-> "b", C |-> "c", D |-> "d", E |-> "e", L |-> "l",
     P |-> "p", W |-> "w",
     Alpha_tonos |-> "alpha_tonos", Alpha |-> "alpha"]

\* canonical decomposition (NFD) of the precomposed characters
DecompositionTable ==
    [alpha_tonos   |-> <<"alpha", "acute">>,
     epsilon_tonos |-> <<"epsilon", "acute">>,
     eta_tonos     |-> <<"eta", "acute">>,
     iota_tonos    |-> <<"iota", "acute">>,
     omicron_tonos |-> <<"omicron", "acute">>,
     upsilon_tonos |-> <<"upsilon", "acute">>,
     omega_tonos   |-> <<"omega", "acute">>,
     iota_dialytika_tonos    |-> <<"iota", "diaeresis", "acute">>,
     upsilon_dialytika_tonos |-> <<"upsilon", "diaeresis", "acute">>,
     iota_dialytika          |-> <<"iota", "diaeresis">>,
     a_acute                 |-> <<"a", "acute">>]

-----------------------------------------------------------------------------
(* String primitives                                                       *)

RECURSIVE Concat(_)
Concat(ss) == IF ss = <<>> THEN <<>> ELSE Head(ss) \o Concat(Tail(ss))

ToLowerCase(s) ==
    [i \in 1..Len(s) |->
        IF s[i] \in DOMAIN LowerTable THEN LowerTable[s[i]] ELSE s[i]]

RECURSIVE TrimStart(_)
TrimStart(s) ==
    IF s # <<>> /\ Head(s) \in Whitespace THEN TrimStart(Tail(s)) ELSE s

RECURSIVE TrimEnd(_)
TrimEnd(s) ==
    IF s # <<>> /\ s[Len(s)] \in Whitespace
    THEN TrimEnd(SubSeq(s, 1, Len(s) - 1))
    ELSE s

\* String.prototype.trim
Trim(s) == TrimEnd(TrimStart(s))

\* mutant: the string is not decomposed (as with normalize('NFC'))
NFD_NotDecomposed(s) == s

\* String.prototype.normalize('NFD')
NFD(s) ==
    Concat([i \in 1..Len(s) |->
        IF s[i] \in DOMAIN DecompositionTable
        THEN DecompositionTable[s[i]]
        ELSE <<s[i]>>])

\* .replace(/[\u0300-\u036f]/g, ''), line 17
StripCombining(s) ==
    LET Keep(c) == c \notin CombiningMarks IN SelectSeq(s, Keep)

\* .replace(/<from>/g, to) for a one-character pattern
ReplaceChar(s, from, to) ==
    [i \in 1..Len(s) |-> IF s[i] = from THEN to ELSE s[i]]

\* the nine accented-letter replacements, lines 19-27, in order
FoldAccents(s) ==
    LET s1 == ReplaceChar(s,  "alpha_tonos",   "alpha")
        s2 == ReplaceChar(s1, "epsilon_tonos", "epsilon")
        s3 == ReplaceChar(s2, "eta_tonos",     "eta")
        s4 == ReplaceChar(s3, "iota_tonos",    "iota")
        s5 == ReplaceChar(s4, "omicron_tonos", "omicron")
        s6 == ReplaceChar(s5, "upsilon_tonos", "upsilon")
        s7 == ReplaceChar(s6, "omega_tonos",   "omega")
        s8 == ReplaceChar(s7, "iota_dialytika_tonos",    "iota")
        s9 == ReplaceChar(s8, "upsilon_dialytika_tonos", "upsilon")
    IN  s9

\* .replace(/final sigma/g, sigma), line 28
FoldFinalSigma(s) == ReplaceChar(s, "final_sigma", "sigma")

\* .replace(/[/\\]/g, ' '), line 30
SlashesToSpaces(s) ==
    [i \in 1..Len(s) |-> IF s[i] \in {"/", "\\"} THEN " " ELSE s[i]]

\* .replace(/\s+/g, ' '), line 31: every maximal run of whitespace becomes
\* one space
RECURSIVE CollapseWhitespace(_)
CollapseWhitespace(s) ==
    IF s = <<>> THEN <<>>
    ELSE IF Head(s) \in Whitespace
         THEN <<" ">> \o CollapseWhitespace(TrimStart(s))
         ELSE <<Head(s)>> \o CollapseWhitespace(Tail(s))

\* the string the fold table is applied to: lines 13-17
Decomposed(t) == StripCombining(NFD(Trim(ToLowerCase(t))))

normalizeSearchText(t) ==
    IF Falsy(t) THEN <<>>
    ELSE CollapseWhitespace(
            SlashesToSpaces(FoldFinalSigma(FoldAccents(Decomposed(t)))))

-----------------------------------------------------------------------------
(* tokenize                                                                *)

\* the separator class of the split pattern /[\s\-\/,]+/
Separators == Whitespace \cup {"-", "/", ","}

\* String.prototype.split with the pattern above: the pieces between the
\* maximal runs of separators, empty pieces at either end included
RECURSIVE SplitFrom(_, _, _, _)
SplitFrom(s, i, piece, out) ==
    IF i > Len(s) THEN Append(out, piece)
    ELSE IF s[i] \in Separators
         THEN IF i > 1 /\ s[i - 1] \in Separators
              THEN SplitFrom(s, i + 1, piece, out)
              ELSE SplitFrom(s, i + 1, <<>>, Append(out, piece))
         ELSE SplitFrom(s, i + 1, Append(piece, s[i]), out)

Split(s) == SplitFrom(s, 1, <<>>, <<>>)

\* mutant: the filter keeps one-character tokens
tokenize_KeepsShort(t) ==
    LET LongEnough(token) == Len(token) >= 1
    IN  SelectSeq(Split(normalizeSearchText(t)), LongEnough)

tokenize(t) ==
    LET normalized == normalizeSearchText(t)
        LongEnough(token) == Len(token) >= 2
    IN  SelectSeq(Split(normalized), LongEnough)

-----------------------------------------------------------------------------
(* matchesSearch                                                           *)

\* String.prototype.includes
Includes(s, sub) ==
    \E i \in 0..(Len(s) - Len(sub)) : SubSeq(s, i + 1, i + Len(sub)) = sub

\* String.prototype.startsWith
StartsWith(s, prefix) ==
    Len(prefix) <= Len(s) /\ SubSeq(s, 1, Len(prefix)) = prefix

\* mutant: the prefix branch accepts a search token of any length
TokenMatched_AnyPrefix(searchToken, targetTokens, j) ==
    \E k \in j..Len(targetTokens) :
        \/ targetTokens[k] = searchToken
        \/ StartsWith(targetTokens[k], searchToken)
        \/ Includes(targetTokens[k], searchToken) /\ Len(searchToken) >= 4

\* the inner loop, lines 75-91, from target token j on
RECURSIVE TokenMatched(_, _, _)
TokenMatched(searchToken, targetTokens, j) ==
    IF j > Len(targetTokens) THEN FALSE
    ELSE LET targetToken == targetTokens[j]
         IN  IF targetToken = searchToken THEN TRUE
             ELSE IF StartsWith(targetToken, searchToken)
                     /\ Len(searchToken) >= 3 THEN TRUE
             ELSE IF Includes(targetToken, searchToken)
                     /\ Len(searchToken) >= 4 THEN TRUE
             ELSE TokenMatched(searchToken, targetTokens, j + 1)

\* the outer loop, lines 72-100, from search token i on
RECURSIVE AllTokensMatched(_, _, _)
AllTokensMatched(searchTokens, targetTokens, i) ==
    IF i > Len(searchTokens) THEN TRUE
    ELSE IF ~TokenMatched(searchTokens[i], targetTokens, 1) THEN FALSE
    ELSE AllTokensMatched(searchTokens, targetTokens, i + 1)

\* mutant: the minimum-length check of line 56 is missing
matchesSearch_NoMinLength(s, t) ==
    IF Falsy(s) \/ Falsy(t) THEN FALSE
    ELSE IF Includes(normalizeSearchText(t), normalizeSearchText(s)) THEN TRUE
    ELSE /\ tokenize(s) # <<>>
         /\ tokenize(t) # <<>>
         /\ AllTokensMatched(tokenize(s), tokenize(t), 1)

matchesSearch(s, t) ==
    IF Falsy(s) \/ Falsy(t) THEN FALSE
    ELSE LET normalizedSearch == normalizeSearchText(s)
             normalizedTarget == normalizeSearchText(t)
         IN  IF Len(normalizedSearch) < 2 THEN FALSE
             ELSE IF Includes(normalizedTarget, normalizedSearch) THEN TRUE
             ELSE LET searchTokens == tokenize(s)
                  IN  IF Len(searchTokens) = 0 THEN FALSE
                      ELSE LET targetTokens == tokenize(t)
                           IN  IF Len(targetTokens) = 0 THEN FALSE
                               ELSE AllTokensMatched(searchTokens,
                                                     targetTokens, 1)

-----------------------------------------------------------------------------
(* matchesSearchArray, searchProduct, debugSearch                          *)

\* A SearchableProduct is a function from the names of the fields it has to
\* their values: an optional field that is absent is no element of its
\* domain.  The undefined product is UndefinedProduct.
UndefinedProduct == [undefined |-> TRUE]

IsUndefinedProduct(p) == "undefined" \in DOMAIN p

\* product.<field> is truthy: the field is there and is not the empty string
\* (an array, empty or not, is truthy)
Has(p, field) == field \in DOMAIN p /\ p[field] # <<>>

HasArray(p, field) == field \in DOMAIN p

\* mutant: only the first item is tried
matchesSearchArray_FirstOnly(term, items) ==
    IF Falsy(term) \/ Len(items) = 0 THEN FALSE
    ELSE matchesSearch(term, items[1])

\* items.some(item => matchesSearch(searchTerm, item)), from item i on
RECURSIVE SomeItemMatches(_, _, _)
SomeItemMatches(term, items, i) ==
    IF i > Len(items) THEN FALSE
    ELSE IF matchesSearch(term, items[i]) THEN TRUE
    ELSE SomeItemMatches(term, items, i + 1)

matchesSearchArray(term, items) ==
    IF Falsy(term) \/ Len(items) = 0 THEN FALSE
    ELSE SomeItemMatches(term, items, 1)

\* lines 143-166: the fields in the order they are tried
AnyFieldMatched(p, term) ==
    IF matchesSearch(term, p.name) THEN TRUE
    ELSE IF matchesSearch(term, p.nameEn) THEN TRUE
    ELSE IF matchesSearch(term, p.description) THEN TRUE
    ELSE IF Has(p, "descriptionEn")
            /\ matchesSearch(term, p.descriptionEn) THEN TRUE
    ELSE IF matchesSearchArray(term, p.colors) THEN TRUE
    ELSE IF matchesSearchArray(term, p.materials) THEN TRUE
    ELSE IF matchesSearchArray(term, p.features) THEN TRUE
    ELSE IF HasArray(p, "tags") /\ matchesSearchArray(term, p.tags) THEN TRUE
    ELSE IF Has(p, "category") /\ matchesSearch(term, p.category) THEN TRUE
    ELSE IF Has(p, "subcategory")
            /\ matchesSearch(term, p.subcategory) THEN TRUE
    ELSE FALSE

\* mutant: the product is tested before the search term
searchProduct_ProductFirst(p, term) ==
    IF IsUndefinedProduct(p) THEN FALSE
    ELSE IF Falsy(term) \/ Len(Trim(term)) = 0 THEN TRUE
    ELSE IF Len(normalizeSearchText(term)) < 2 THEN FALSE
    ELSE AnyFieldMatched(p, term)

\* mutant: a search term that is too short shows every product
searchProduct_ShortShowsAll(p, term) ==
    IF Falsy(term) \/ Len(Trim(term)) = 0 THEN TRUE
    ELSE IF IsUndefinedProduct(p) THEN FALSE
    ELSE IF Len(normalizeSearchText(term)) < 2 THEN TRUE
    ELSE AnyFieldMatched(p, term)

searchProduct(p, term) ==
    IF Falsy(term) \/ Len(Trim(term)) = 0 THEN TRUE
    ELSE IF IsUndefinedProduct(p) THEN FALSE
    ELSE LET normalizedSearch == normalizeSearchText(term)
         IN  IF Len(normalizedSearch) < 2 THEN FALSE
             ELSE AnyFieldMatched(p, term)

\* the entries debugSearch pushes for the items of one array
RECURSIVE ItemEntries(_, _, _, _)
ItemEntries(term, items, label, i) ==
    IF i > Len(items) THEN <<>>
    ELSE (IF matchesSearch(term, items[i])
          THEN << <<label, items[i]>> >> ELSE <<>>)
         \o ItemEntries(term, items, label, i + 1)

\* an entry is <<label, value>>; the description's entry has no value
debugSearch(p, term) ==
    (IF matchesSearch(term, p.name) THEN << <<"Name", p.name>> >> ELSE <<>>)
    \o (IF matchesSearch(term, p.nameEn)
        THEN << <<"Name EN", p.nameEn>> >> ELSE <<>>)
    \o (IF matchesSearch(term, p.description)
        THEN << <<"Description">> >> ELSE <<>>)
    \o ItemEntries(term, p.colors, "Color", 1)
    \o ItemEntries(term, p.materials, "Material", 1)
    \o ItemEntries(term, p.features, "Feature", 1)

-----------------------------------------------------------------------------
(* Inputs                                                                  *)

RECURSIVE StringsUpTo(_, _)
StringsUpTo(chars, n) ==
    IF n = 0 THEN {<<>>}
    ELSE LET shorter == StringsUpTo(chars, n - 1)
         IN  shorter \cup {Append(s, c) : s \in shorter, c \in chars}

NormChars ==
    {"a", "b", "A", " ", "tab", "/", "\\", "-", ",",
     "alpha_tonos", "Alpha_tonos", "iota_dialytika_tonos", "acute",
     "final_sigma"}

NormTexts == StringsUpTo(NormChars, MaxTextLen) \cup {Undefined}

TokChars == {"a", "b", " ", "-", "/", ","}

TokTexts == StringsUpTo(TokChars, MaxTokTextLen) \cup {Undefined}

\* words of the matcher specification, one vocabulary per scenario
White   == <<"W", "h", "i", "t", "e">>
LED     == <<"L", "E", "D">>
Panel   == <<"P", "a", "n", "e", "l">>
co      == <<"c", "o">>
cori    == <<"c", "o", "r", "i">>
corian  == <<"c", "o", "r", "i", "a", "n">>
surface == <<"s", "u", "r", "f", "a", "c", "e">>
ori     == <<"o", "r", "i">>
oria    == <<"o", "r", "i", "a">>

Vocabularies ==
    {{White, LED, Panel}, {co, cori, corian, surface}, {ori, oria, corian}}

RECURSIVE JoinWords(_, _)
JoinWords(words, sep) ==
    IF words = <<>> THEN <<>>
    ELSE IF Len(words) = 1 THEN words[1]
    ELSE words[1] \o <<sep>> \o JoinWords(Tail(words), sep)

\* the texts of at most n different words of a vocabulary, joined by a
\* separator
TextsOf(vocabulary, n, separators) ==
    {JoinWords(ws, sep) :
        ws \in UNION {{w \in [1..k -> vocabulary] :
                          \A i, j \in 1..k : w[i] = w[j] => i = j} :
                      k \in 0..n},
        sep \in separators}

\* search terms that are short, blank or hold characters that normalize away
ShortChars == {"a", "A", " ", "/", "acute"}

ShortTerms == StringsUpTo(ShortChars, MaxShortLen) \cup {Undefined}

ShortTargets == StringsUpTo({"a", "b", " "}, MaxShortLen + 1) \cup {Undefined}

\* the values of the products' fields
chair == <<"c", "h", "a", "i", "r">>
white == <<"w", "h", "i", "t", "e">>
black == <<"b", "l", "a", "c", "k">>
blackWhite == black \o <<"-">> \o white
xTerm == <<"x">>

StringFields ==
    {"name", "nameEn", "description", "descriptionEn", "category",
     "subcategory"}

ArrayFields == {"colors", "materials", "features", "tags"}

StringValues == {white, xTerm, blackWhite, <<>>}

\* the arrays of at most MaxItems different labels
ArrayValues ==
    UNION {{a \in [1..k -> {white, black}] :
               \A i, j \in 1..k : a[i] = a[j] => i = j} : k \in 0..MaxItems}

\* the required fields only, none of them matching "white" or "x"
BaseProduct ==
    [name |-> chair, nameEn |-> chair, description |-> chair,
     colors |-> <<>>, materials |-> <<>>, features |-> <<>>]

\* the products that differ from BaseProduct in at most MaxVaried fields,
\* and the undefined product
Products ==
    {UndefinedProduct} \cup
    UNION {UNION {
        {[f \in DOMAIN BaseProduct \cup fs \cup fa |->
             IF f \in fs THEN vs[f]
             ELSE IF f \in fa THEN va[f]
             ELSE BaseProduct[f]] :
           vs \in [fs -> StringValues], va \in [fa -> ArrayValues]} :
        fa \in {a \in SUBSET ArrayFields :
                   Cardinality(a) + Cardinality(fs) <= MaxVaried}} :
      fs \in {x \in SUBSET StringFields : Cardinality(x) <= MaxVaried}}

whiteBlack == white \o <<" ">> \o black

ProductTerms ==
    {Undefined, <<>>, <<" ">>, <<" ", "tab">>, xTerm, <<"/">>, <<"acute">>,
     white, White, whiteBlack, chair}

-----------------------------------------------------------------------------
(* The calls                                                               *)

Idle ==
    /\ pc = "ready"
    /\ op = "none"
    /\ result = Undefined

NoMatchArgs ==
    /\ searchTerm = Undefined
    /\ targetText = Undefined
    /\ product = UndefinedProduct

CallNormalizeSearchText ==
    /\ pc = "ready"
    /\ pc' = "returned"
    /\ op' = "normalizeSearchText"
    /\ result' = normalizeSearchText(text)
    /\ UNCHANGED <<text, searchTerm, targetText, product>>

CallTokenize ==
    /\ pc = "ready"
    /\ pc' = "returned"
    /\ op' = "tokenize"
    /\ result' = tokenize(text)
    /\ UNCHANGED <<text, searchTerm, targetText, product>>

InitNorm ==
    /\ Idle
    /\ NoMatchArgs
    /\ text \in NormTexts

NextNorm == CallNormalizeSearchText

SpecNorm == InitNorm /\ [][NextNorm]_vars

InitTok ==
    /\ Idle
    /\ NoMatchArgs
    /\ text \in TokTexts

NextTok == CallTokenize

SpecTok == InitTok /\ [][NextTok]_vars

CallMatchesSearch ==
    /\ pc = "ready"
    /\ pc' = "returned"
    /\ op' = "matchesSearch"
    /\ result' = matchesSearch(searchTerm, targetText)
    /\ UNCHANGED <<text, searchTerm, targetText, product>>

InitMatch ==
    /\ Idle
    /\ text = Undefined
    /\ product = UndefinedProduct
    /\ \/ \E vocabulary \in Vocabularies :
            /\ searchTerm \in TextsOf(vocabulary, MaxSearchWords, {" ", "-"})
            /\ targetText \in TextsOf(vocabulary, MaxTargetWords, {" "})
       \/ /\ searchTerm \in ShortTerms
          /\ targetText \in ShortTargets

NextMatch == CallMatchesSearch

SpecMatch == InitMatch /\ [][NextMatch]_vars

CallSearchProduct ==
    /\ pc = "ready"
    /\ pc' = "returned"
    /\ op' = "searchProduct"
    /\ result' = searchProduct(product, searchTerm)
    /\ UNCHANGED <<text, searchTerm, targetText, product>>

\* debugSearch reads product.name first: on the undefined product it throws
CallDebugSearch ==
    /\ pc = "ready"
    /\ op' = "debugSearch"
    /\ IF IsUndefinedProduct(product)
       THEN pc' = "threw" /\ result' = Undefined
       ELSE pc' = "returned" /\ result' = debugSearch(product, searchTerm)
    /\ UNCHANGED <<text, searchTerm, targetText, product>>

InitProduct ==
    /\ Idle
    /\ text = Undefined
    /\ targetText = Undefined
    /\ product \in Products
    /\ searchTerm \in ProductTerms

NextProduct == CallSearchProduct \/ CallDebugSearch

SpecProduct == InitProduct /\ [][NextProduct]_vars

-----------------------------------------------------------------------------
(* Properties of normalizeSearchText                                       *)

Returned(f) == pc = "returned" /\ op = f

\* C4: normalizeSearchText is idempotent: normalizing the string a call
\* returned gives that string again, for every input, strings that begin or
\* end with a slash, a backslash or whitespace included.
C4_Idempotent ==
    Returned("normalizeSearchText") => normalizeSearchText(result) = result

\* C10 as stated: some input reaches the fold table with a string that one
\* of the nine accented-letter replacements changes.
C10_FoldTableReachable ==
    Returned("normalizeSearchText") =>
        \E t \in NormTexts :
            /\ ~Falsy(t)
            /\ FoldAccents(Decomposed(t)) # Decomposed(t)

\* C10, amended: for every input of normalizeSearchText the string that
\* reaches the fold table (lowercased, trimmed, decomposed, combining marks
\* removed) is left unchanged by the nine accented-letter replacements: the
\* decomposition has already split those letters, so the replacements never
\* fire; the accent is removed all the same.
C10_FoldTableNeverFires ==
    (Returned("normalizeSearchText") /\ ~Falsy(text)) =>
        /\ FoldAccents(Decomposed(text)) = Decomposed(text)
        /\ \A i \in 1..Len(result) : result[i] \notin DOMAIN DecompositionTable

\* a call whose input holds an accented letter of the table, returned with
\* the unaccented base letter
C10_Witness ==
    /\ Returned("normalizeSearchText")
    /\ text = <<"a", "alpha_tonos">>
    /\ result = <<"a", "alpha">>

-----------------------------------------------------------------------------
(* Properties of tokenize                                                  *)

\* the maximal separator-free runs <<first, last>> of s of length >= 2
LongPieces(s) ==
    {r \in (1..Len(s)) \X (1..Len(s)) :
        /\ r[2] - r[1] + 1 >= 2
        /\ \A k \in r[1]..r[2] : s[k] \notin Separators
        /\ (r[1] = 1 \/ s[r[1] - 1] \in Separators)
        /\ (r[2] = Len(s) \/ s[r[2] + 1] \in Separators)}

\* C8: tokenize returns the maximal separator-free pieces of the normalized
\* text that have length >= 2, in their order of occurrence with duplicates
\* kept; no token is shorter than 2 characters or contains a separator, and
\* a text with only shorter pieces yields the empty sequence.
C8_TokenizePieces ==
    Returned("tokenize") =>
        LET n == normalizeSearchText(text)
            pieces == LongPieces(n)
            Earlier(r) == Cardinality({q \in pieces : q[1] < r[1]})
        IN  /\ Len(result) = Cardinality(pieces)
            /\ \A r \in pieces : result[Earlier(r) + 1] = SubSeq(n, r[1], r[2])
            /\ \A k \in 1..Len(result) :
                  /\ Len(result[k]) >= 2
                  /\ \A i \in 1..Len(result[k]) : result[k][i] \notin Separators
            /\ (pieces = {} => result = <<>>)

\* a text with a one-character piece between two equal longer pieces: the
\* short piece is dropped, the duplicate kept, in order
C8_Witness ==
    /\ Returned("tokenize")
    /\ text = <<"a", "b", ",", "a", "b">>
    /\ result = << <<"a", "b">>, <<"a", "b">> >>

-----------------------------------------------------------------------------
(* Properties of matchesSearch                                             *)

aTerm == <<"a">>
aSpaceB == <<"a", " ", "b">>

\* C1: matchesSearch fails closed: it returns false whenever the search
\* term is empty or undefined, or the target text is empty or undefined, or
\* the normalized search term has fewer than 2 characters, whatever the
\* other argument holds.
C1_FailsClosed ==
    (/\ Returned("matchesSearch")
     /\ \/ Falsy(searchTerm)
        \/ Falsy(targetText)
        \/ Len(normalizeSearchText(searchTerm)) < 2)
    => result = FALSE

\* a one-character search term that the target text contains, rejected
C1_Witness ==
    /\ Returned("matchesSearch")
    /\ searchTerm = aTerm
    /\ targetText = aSpaceB
    /\ result = FALSE

\* a search token matches a target token
TokenMatch(s, t) ==
    \/ t = s
    \/ StartsWith(t, s) /\ Len(s) >= 3
    \/ Includes(t, s) /\ Len(s) >= 4

\* every search token matches at least one target token
TokenSetMatch(searchTokens, targetTokens) ==
    /\ searchTokens # <<>>
    /\ targetTokens # <<>>
    /\ \A i \in 1..Len(searchTokens) :
          \E j \in 1..Len(targetTokens) :
              TokenMatch(searchTokens[i], targetTokens[j])

\* the texts that hold the tokens of t in another order: defined when the
\* normalized t is its tokens joined by one separator
Reorderings(t) ==
    LET tokens == tokenize(t)
        n == Len(tokens)
    IN  UNION {
            IF normalizeSearchText(t) = JoinWords(tokens, sep)
            THEN {JoinWords([i \in 1..n |-> tokens[f[i]]], sep) :
                      f \in Permutations(1..n)}
            ELSE {} : sep \in {" ", "-", ","}}

\* a call with non-empty arguments and a normalized search term of length
\* >= 2 has returned
MatchDecided ==
    /\ Returned("matchesSearch")
    /\ ~Falsy(searchTerm)
    /\ ~Falsy(targetText)
    /\ Len(normalizeSearchText(searchTerm)) >= 2

SubstringMatch(s, t) ==
    Includes(normalizeSearchText(t), normalizeSearchText(s))

WhiteLED == White \o <<" ">> \o LED
LEDWhitePanel == LED \o <<" ">> \o White \o <<" ">> \o Panel
WhitePanel == White \o <<" ">> \o Panel

C2_Characterization ==
    /\ result = (\/ SubstringMatch(searchTerm, targetText)
                 \/ TokenSetMatch(tokenize(searchTerm), tokenize(targetText)))
    /\ (searchTerm = WhiteLED /\ targetText = LEDWhitePanel) => result = TRUE
    /\ (searchTerm = WhiteLED /\ targetText = WhitePanel) => result = FALSE

\* C2 as stated: for non-empty inputs whose normalized search term has
\* length >= 2, matchesSearch returns true exactly when the normalized
\* target contains the normalized search term or every search token matches
\* a target token (both token lists non-empty), and the result does not
\* depend on the order of the tokens in either text.
C2_OrderIndependent ==
    MatchDecided =>
        /\ C2_Characterization
        /\ \A t2 \in Reorderings(targetText) :
              matchesSearch(searchTerm, t2) = result
        /\ \A s2 \in Reorderings(searchTerm) :
              matchesSearch(s2, targetText) = result

\* C2, amended: the same characterization of the result; the result does
\* not depend on the order of the tokens in either text among the orders
\* that leave the substring condition as it is (the token condition is
\* independent of the order, the substring condition is not).
C2_OrderIndependentUpToSubstring ==
    MatchDecided =>
        /\ C2_Characterization
        /\ \A t2 \in Reorderings(targetText) :
              SubstringMatch(searchTerm, t2)
                  = SubstringMatch(searchTerm, targetText)
              => matchesSearch(searchTerm, t2) = result
        /\ \A s2 \in Reorderings(searchTerm) :
              SubstringMatch(s2, targetText)
                  = SubstringMatch(searchTerm, targetText)
              => matchesSearch(s2, targetText) = result

\* "White LED" against "LED White Panel": no substring, both tokens found
C2_Witness ==
    /\ Returned("matchesSearch")
    /\ searchTerm = WhiteLED
    /\ targetText = LEDWhitePanel
    /\ ~SubstringMatch(searchTerm, targetText)
    /\ result = TRUE

corianSurface == corian \o <<" ">> \o surface

\* C3: a search term that is a single token of length 2, a proper prefix of
\* a target token and equal to no target token, does not match;
\* matchesSearch("co", "corian surface") is false and
\* matchesSearch("cori", "corian surface") is true.
C3_ShortPrefixRejected ==
    (Returned("matchesSearch") /\ ~Falsy(searchTerm) /\ ~Falsy(targetText)) =>
        LET searchTokens == tokenize(searchTerm)
            targetTokens == tokenize(targetText)
        IN  /\ (/\ searchTokens = <<normalizeSearchText(searchTerm)>>
                /\ Len(searchTokens[1]) = 2
                /\ \E j \in 1..Len(targetTokens) :
                      StartsWith(targetTokens[j], searchTokens[1])
                /\ \A j \in 1..Len(targetTokens) :
                      targetTokens[j] # searchTokens[1])
               => result = FALSE
            /\ (searchTerm = co /\ targetText = corianSurface)
               => result = FALSE
            /\ (searchTerm = cori /\ targetText = corianSurface)
               => result = TRUE

-----------------------------------------------------------------------------
(* Properties of searchProduct and debugSearch                             *)

\* the search term is empty, undefined or whitespace only
Blank(term) ==
    Falsy(term) \/ \A i \in 1..Len(term) : term[i] \in Whitespace

\* C5: for every product, defined or undefined, a search term that is
\* empty, undefined or whitespace only yields true; for the undefined
\* product and any other search term the result is false.
C5_GuardOrder ==
    Returned("searchProduct") =>
        /\ Blank(searchTerm) => result = TRUE
        /\ (~Blank(searchTerm) /\ IsUndefinedProduct(product))
           => result = FALSE

\* the undefined product with a whitespace-only search term is shown
C5_Witness ==
    /\ Returned("searchProduct")
    /\ IsUndefinedProduct(product)
    /\ searchTerm = <<" ", "tab">>
    /\ result = TRUE

\* C6: for every product and every search term that is not blank but whose
\* normalized form has fewer than 2 characters, searchProduct returns
\* false, even when a field of the product equals the search term.
C6_ShortTermRejected ==
    (/\ Returned("searchProduct")
     /\ ~Blank(searchTerm)
     /\ Len(normalizeSearchText(searchTerm)) < 2)
    => result = FALSE

\* a product named "x" searched for "x"
C6_Witness ==
    /\ Returned("searchProduct")
    /\ ~IsUndefinedProduct(product)
    /\ product.name = xTerm
    /\ searchTerm = xTerm
    /\ result = FALSE

\* matchesSearch succeeds on a field the product has, or on an item of one
\* of its arrays
SomeFieldMatches(p, term, stringFields, arrayFields) ==
    \/ \E f \in stringFields \cap DOMAIN p : matchesSearch(term, p[f])
    \/ \E f \in arrayFields \cap DOMAIN p :
          \E i \in 1..Len(p[f]) : matchesSearch(term, p[f][i])

\* a defined product and a search term of normalized length >= 2
ProductDecided ==
    /\ ~IsUndefinedProduct(product)
    /\ ~Falsy(searchTerm)
    /\ Len(normalizeSearchText(searchTerm)) >= 2

\* C7: for a defined product and a search term of normalized length >= 2,
\* searchProduct returns true if and only if matchesSearch succeeds on name,
\* nameEn, description, descriptionEn, an item of colors, materials,
\* features or tags, category or subcategory; an absent optional field or
\* an empty array does not match, and with no field matching the result is
\* false.
C7_AnyFieldMatches ==
    (Returned("searchProduct") /\ ProductDecided) =>
        result = SomeFieldMatches(product, searchTerm,
                                  StringFields, ArrayFields)

\* colors = ["black", "white"], no other field matching "white", and no
\* optional field present
C7_Witness ==
    /\ Returned("searchProduct")
    /\ product = [BaseProduct EXCEPT !.colors = <<black, white>>]
    /\ searchTerm = white
    /\ result = TRUE

\* the label an entry for each field carries (debugSearch has entries for
\* the first three and for the items of colors, materials and features)
DebugLabel ==
    [name |-> "Name", nameEn |-> "Name EN", description |-> "Description",
     descriptionEn |-> "Description EN", colors |-> "Color",
     materials |-> "Material", features |-> "Feature", tags |-> "Tag",
     category |-> "Category", subcategory |-> "Subcategory"]

\* C9: for a defined product and a search term of normalized length >= 2
\* debugSearch has an entry for every field that matches among the fields
\* searchProduct checks: its result is non-empty whenever searchProduct
\* returns true and empty whenever searchProduct returns false.
C9_DebugAgreesWithSearch ==
    (Returned("debugSearch") /\ ProductDecided) =>
        /\ (result # <<>>) = searchProduct(product, searchTerm)
        /\ \A f \in (StringFields \cup ArrayFields) \cap DOMAIN product :
              SomeFieldMatches(product, searchTerm,
                               {f} \cap StringFields, {f} \cap ArrayFields)
              => \E k \in 1..Len(result) :
                    result[k][1] = DebugLabel[f]

=============================================================================
